---- MODULE Spec2Model ----
(***************************************************************************)
(* Garmin LiveTrack Public: the email poller (monitor/monitor_service.py,  *)
(* monitor/gmail_client.py), the state file it shares with the web         *)
(* process (web/main.py) and the reader routes of the web process.         *)
(*                                                                         *)
(* Python None is modelled by the string "None" where the value is a       *)
(* string, and by the empty tuple <<>> where the value is a datetime.      *)
(***************************************************************************)
EXTENDS Integers, Sequences, FiniteSets, TLC

VARIABLES
    \* ---- monitor_service.py (the Poller process) ----
    pc,            \* position of the Poller in main()/monitor_loop()/save_state()
    ret,           \* where the running save_state() call returns to
    running,       \* global flag `running`
    last_email_id, \* monitor_loop local
    email_data,    \* monitor_loop local: result of the last fetch
    fetch_exc,     \* the last fetch raised
    state,         \* save_state local: the dict being written
    creds,         \* GmailClient.creds (in-memory credential)
    expected_email,\* GMAIL_ACCOUNT is configured
    log,           \* last line monitor_loop printed about the fetched email
    save_ok,       \* the last save_state() printed "State updated" (line 68)
    slept,         \* seconds the running time.sleep() call has lasted
    \* ---- the file system shared by both processes ----
    token,         \* content of TOKEN_FILE
    path,          \* directory: file name -> inode number (0: no such file)
    inode,         \* inode number -> file content
    \* ---- web/main.py read_state() (one request at a time is modelled) ----
    rpc,           \* position of the reader
    rfd,           \* inode the reader holds open (0: none)
    rresult,       \* dict returned by the last read_state()
    \* ---- wall clock ----
    clock,
    \* ---- calculate_activity_status() applied to drawn inputs ----
    cls_state, cls_now, cls_out,
    \* ---- web/main.py reauth() ----
    reauth_out,    \* what the last POST /api/reauth answered and printed
    \* ---- web/main.py health() ----
    health_out,    \* what the last GET /api/health answered
    \* ---- email_monitor.py (EmailMonitor and its thread) ----
    em_pc,         \* position of the monitoring thread
    em_running,      \* EmailMonitor.em_running
    current_livetrack_url,
    em_last_email_id,  \* EmailMonitor.last_email_id
    em_url,        \* _check_for_updates: the value its callback loop passes
    em_i,          \* _check_for_updates: index of the next callback to invoke
    th_pc,         \* position of every thread start() has created
    em_thread,     \* EmailMonitor._thread: the thread start() created last (0: None)
    caller_pc,     \* position of the caller of start() and stop()
    \* ---- web/main.py OAuth state file and /auth/callback requests ----
    oauth_file,    \* content of OAUTH_STATE_FILE
    issued,        \* number of states flow.authorization_url() has made
    so_pc, so_state,   \* start_oauth: position and the state it saves
    cb_pc, cb_request_state, cb_data,   \* per request of /auth/callback
    \* ---- web/main.py requests of /logout and /api/reauth, per worker ----
    rq_route,      \* the route the worker is handling
    rq_pc,         \* its position in the view function
    rq_out,        \* how the view function returned
    \* ---- history (not program state) ----
    em_calls,      \* invocations of each callback in the current check
    em_stopped,    \* stop() has assigned em_running
    authorised,    \* saved state -> requests that went on to the exchange
    cycleWrites,   \* save_state() calls made by the current loop iteration
    clearedId,     \* the id a no-email cycle cleared, until an email is fetched again
    ropened        \* content of the state file at the moment the reader opened it

vars == <<pc, ret, running, slept, last_email_id, email_data, fetch_exc, state, creds,
          expected_email, log, token, path, inode, rpc, rfd, rresult, clock,
          cls_state, cls_now, cls_out, cycleWrites, clearedId, save_ok, ropened,
          reauth_out, health_out, em_pc, em_running, current_livetrack_url,
          em_last_email_id, em_url, em_i, oauth_file, issued, so_pc, so_state,
          cb_pc, cb_request_state, cb_data, em_calls, em_stopped, authorised,
          th_pc, em_thread, caller_pc, rq_route, rq_pc, rq_out>>

pollerVars == <<pc, ret, running, slept, last_email_id, email_data, fetch_exc, state,
                creds, log, save_ok, cycleWrites, clearedId>>
readerVars == <<rpc, rfd, rresult, ropened>>
thVars     == <<th_pc, em_thread, caller_pc>>
emVars     == <<em_pc, em_running, current_livetrack_url, em_last_email_id,
                em_url, em_i, em_calls, em_stopped, thVars>>
rqVars     == <<rq_route, rq_pc, rq_out>>
oaVars     == <<oauth_file, issued, so_pc, so_state, cb_pc, cb_request_state,
                cb_data, authorised, rqVars>>
clsVars    == <<cls_state, cls_now, cls_out>>
fsVars     == <<path, inode>>

---------------------------------------------------------------------------
\* Bounds of the model

MaxClock == 3       \* the wall clock takes the values 0..MaxClock
NChunks  == 2       \* json.dump reaches the file in NChunks writes
NInodes  == 3       \* inodes available to the two files and the open handle
MaxDelta == 1       \* classifier ages are drawn within MaxDelta s of a threshold
MaxStamp == 1       \* classifier timestamps are drawn from 0..MaxStamp
NCallbacks == 2     \* callbacks registered with the EmailMonitor
MaxThreads == 3     \* threads start() may create in one run
MaxFlows == 2       \* OAuth flows started, each with a state of its own

\* requests of /auth/callback handled at the same time
Workers == {"w1", "w2"}

\* OAUTH_STATE_FILE: absent, or the JSON text on disk (0: cut short)
NoOAuthFile == [exists |-> FALSE]

None    == "None"
NoTime  == <<>>


\* datetime values: <<seconds, tz-aware>>
Stamp(secs, aware) == <<secs, aware>>

\* what get_latest_livetrack_email() returns
NoEmail == [kind |-> "none"]
Email(id, url, ts) ==
    [kind |-> "email", id |-> id, subject |-> "LiveTrack", timestamp |-> ts,
     livetrack_url |-> url]
\* the mailbox contents the model draws from: the same message with two
\* different links, and another message whose date could not be parsed
Emails == {Email("e1", "u1", Stamp(0, TRUE)), Email("e1", "u2", Stamp(0, TRUE)),
           Email("e2", "u2", NoTime)}

\* the mailbox contents drawn where the reader runs beside the Poller
StoreEmails == {Email("e1", "u1", Stamp(0, TRUE)), Email("e2", "u2", NoTime)}

\* token.json
NoToken == [present |-> FALSE]
Token(valid, rt, acct) ==
    [present |-> TRUE, valid |-> valid, refresh_token |-> rt, account |-> acct]
\* what the authorization exchange can store
FreshTokens == {Token(TRUE, TRUE, "me"), Token(TRUE, FALSE, "me"),
                Token(TRUE, TRUE, "other")}
\* the exchanges drawn where the token's expiry plays no part
LongLivedTokens == {Token(TRUE, TRUE, "me"), Token(TRUE, TRUE, "other")}

---------------------------------------------------------------------------
\* monitor_service.py: save_state()

\* datetime.isoformat(): the text keeps the instant and, for an aware datetime,
\* the UTC offset; a naive datetime is written without offset
isoformat(ts) == <<"iso", ts[1], ts[2]>>

\* datetime.fromisoformat()
fromisoformat(str) == Stamp(str[2], str[3])

WaitingForAuth == "Waiting for authentication"
ServiceError   == "Service error - check logs"
FetchError     == "Error checking emails"
Errors         == {WaitingForAuth, ServiceError, FetchError}

\* save_state with the error argument dropped from the dict
SaveStateDictNoError(data, error, now) ==
    IF data # NoEmail
    THEN [updated_at |-> now,
          url        |-> data.livetrack_url,
          timestamp  |-> IF data.timestamp # NoTime
                         THEN isoformat(data.timestamp) ELSE NoTime,
          email_id   |-> data.id,
          subject    |-> data.subject,
          error      |-> None]
    ELSE [updated_at |-> now, url |-> None, timestamp |-> NoTime,
          email_id |-> None, subject |-> None, error |-> None]

\* save_state copying only the url from the message
SaveStateDictUrlOnly(data, error, now) ==
    [updated_at |-> now,
     url        |-> IF data.kind = "email" THEN data.livetrack_url ELSE "None",
     timestamp  |-> <<>>,
     email_id   |-> "None",
     subject    |-> "None",
     error      |-> error]

\* save_state stamping the event with the time of the call
SaveStateDictStampsNow(data, error, now) ==
    IF data # NoEmail
    THEN [updated_at |-> now,
          url        |-> data.livetrack_url,
          timestamp  |-> <<"iso", now, TRUE>>,
          email_id   |-> data.id,
          subject    |-> data.subject,
          error      |-> error]
    ELSE [updated_at |-> now, url |-> "None", timestamp |-> <<>>,
          email_id |-> "None", subject |-> "None", error |-> error]

\* the dict save_state(email_data, error) builds at time `now`
SaveStateDict(data, error, now) ==
    IF data # NoEmail
    THEN [updated_at |-> now,
          url        |-> data.livetrack_url,
          timestamp  |-> IF data.timestamp # NoTime
                         THEN isoformat(data.timestamp) ELSE NoTime,
          email_id   |-> data.id,
          subject    |-> data.subject,
          error      |-> error]
    ELSE [updated_at |-> now, url |-> None, timestamp |-> NoTime,
          email_id |-> None, subject |-> None, error |-> error]

\* save_state writing the state file in place
TempFileInPlace(p) == p

\* STATE_FILE.with_suffix('.tmp')
TempFileFor(p) == "tmp"

\* file contents: how many chunks of the JSON text are on disk, the time of
\* the last write to the file (st_mtime), and the dict the text parses to once
\* the last chunk is there
Free == [free |-> TRUE]
File(snap, n, now) ==
    IF n = NChunks THEN [free |-> FALSE, n |-> n, mtime |-> now, snap |-> snap]
    ELSE [free |-> FALSE, n |-> n, mtime |-> now]
Complete(f) == f # Free /\ f.n = NChunks

\* inodes no name refers to and no handle holds are returned to the system
Collect(dir, fd, ino) ==
    [i \in 1..NInodes |->
        IF i = fd \/ \E q \in DOMAIN dir : dir[q] = i THEN ino[i] ELSE Free]

FreshInode == CHOOSE i \in 1..NInodes :
                 /\ inode[i] = Free
                 /\ \A j \in 1..NInodes : inode[j] = Free => i <= j

\* value of the local `state` outside a save_state call
NoState == [updated_at |-> 0, url |-> None, timestamp |-> NoTime,
            email_id |-> None, subject |-> None, error |-> None]

\* a save_state whose write error leaves the function as an exception
AfterWriteErrorRaised(back) == "except_other"

\* lines 69-70: the exception of the write is caught and printed, and
\* save_state returns to its caller
AfterWriteError(back) == back

\* the call save_state(data, error): lines 45-60 run, the write comes next
CallSaveState(data, error, back) ==
    /\ state' = SaveStateDict(data, error, clock)
    /\ save_ok' = FALSE
    /\ ret' = back
    /\ pc' = "save_open"

\* line 65: open(temp_file, 'w') creates the file or truncates it
SaveOpen ==
    /\ pc = "save_open"
    /\ \/ /\ LET t == TempFileFor("state") IN
                IF path[t] # 0
                THEN /\ inode' = [inode EXCEPT ![path[t]] = File(state, 0, clock)]
                     /\ path' = path
                ELSE /\ inode' = [inode EXCEPT ![FreshInode] = File(state, 0, clock)]
                     /\ path' = [path EXCEPT ![t] = FreshInode]
          /\ pc' = "save_write"
          /\ state' = state
       \/ \* open() raises: caught at line 69, printed at line 70
          /\ pc' = AfterWriteError(ret)
          /\ state' = NoState
          /\ UNCHANGED fsVars
    /\ save_ok' = FALSE
    /\ UNCHANGED <<ret, running, slept, last_email_id, email_data, fetch_exc,
                   creds, expected_email, reauth_out, health_out, emVars, oaVars, log, token, readerVars, clock,
                   clsVars, cycleWrites, clearedId>>

\* line 66: json.dump(state, f), then the with block closes the file
SaveWrite ==
    /\ pc = "save_write"
    /\ \/ LET i == path[TempFileFor("state")] IN
          /\ inode' = [inode EXCEPT ![i] = File(state, inode[i].n + 1, clock)]
          /\ pc' = IF inode[i].n + 1 = NChunks THEN "save_replace" ELSE "save_write"
          /\ state' = state
       \/ \* a write raises (disk full): caught at line 69, printed at line 70
          /\ pc' = AfterWriteError(ret)
          /\ state' = NoState
          /\ UNCHANGED inode
    /\ save_ok' = FALSE
    /\ UNCHANGED <<ret, running, slept, last_email_id, email_data, fetch_exc,
                   creds, expected_email, reauth_out, health_out, emVars, oaVars, log, token, path, readerVars, clock,
                   clsVars, cycleWrites, clearedId>>

\* line 67: temp_file.replace(STATE_FILE), an atomic rename
SaveReplace ==
    /\ pc = "save_replace"
    /\ \/ LET t == TempFileFor("state")
              dir == [q \in DOMAIN path |->
                         IF q = "state" THEN path[t]
                         ELSE IF q = t THEN 0 ELSE path[q]]
          IN /\ path' = dir
             /\ inode' = Collect(dir, rfd, inode)
             /\ save_ok' = TRUE
             /\ pc' = ret
       \/ \* replace() raises: caught at line 69, printed at line 70
          /\ UNCHANGED fsVars
          /\ save_ok' = FALSE
          /\ pc' = AfterWriteError(ret)
    /\ state' = NoState
    /\ UNCHANGED <<ret, running, slept, last_email_id, email_data, fetch_exc,
                   creds, expected_email, reauth_out, health_out, emVars, oaVars, log, token, readerVars, clock,
                   clsVars, cycleWrites, clearedId>>

---------------------------------------------------------------------------
\* monitor_service.py: main()

envVars  == <<expected_email, reauth_out, health_out, emVars, oaVars, token, path, inode, readerVars, clock, clsVars>>
noFsVars == <<expected_email, reauth_out, health_out, emVars, oaVars, readerVars, clock, clsVars>>
awake    == <<ret, running, last_email_id, email_data, fetch_exc, state, creds,
              log, save_ok, cycleWrites, clearedId>>
locals   == <<awake, slept>>

Alive == pc \notin {"stopped", "killed"}

\* an initial save_state() call without error argument
InitialErrorNone == "None"

\* line 154: the error argument of the initial save_state call
InitialError == WaitingForAuth

\* line 154: save_state(error="Waiting for authentication")
MainStart ==
    /\ pc = "main_init"
    /\ CallSaveState(NoEmail, InitialError, "outer_test")
    /\ UNCHANGED <<running, slept, last_email_id, email_data, fetch_exc, creds, log,
                   cycleWrites, clearedId, envVars>>

\* line 157: while running (and line 201 when it is false)
OuterTest ==
    /\ pc = "outer_test"
    /\ IF running
       THEN pc' = "tok_check" /\ creds' = NoToken
       ELSE pc' = "stopped" /\ creds' = creds
    /\ UNCHANGED <<ret, running, slept, last_email_id, email_data, fetch_exc, state,
                   log, save_ok,
                   cycleWrites, clearedId, envVars>>

\* line 162: if not TOKEN_FILE.exists()
TokCheck ==
    /\ pc = "tok_check"
    /\ pc' = IF token.present THEN "client_init" ELSE "tok_wait"
    /\ UNCHANGED <<locals, envVars>>

\* lines 164-168: while running and not TOKEN_FILE.exists(); if not running: break
TokWait ==
    /\ pc = "tok_wait"
    /\ pc' = IF running /\ ~token.present THEN "tok_sleep"
             ELSE IF ~running THEN "stopped"
             ELSE "client_init"
    /\ UNCHANGED <<locals, envVars>>

\* line 165: time.sleep(5)
TokSleep ==
    /\ pc = "tok_sleep"
    /\ pc' = "tok_wait"
    /\ slept' = 0
    /\ UNCHANGED <<awake, envVars>>

\* lines 188-192: except FileNotFoundError: save_state(...); time.sleep(5)
ExceptFileNotFound ==
    /\ pc = "except_fnf"
    /\ CallSaveState(NoEmail, WaitingForAuth, "fnf_sleep")
    /\ UNCHANGED <<running, slept, last_email_id, email_data, fetch_exc, creds, log,
                   cycleWrites, clearedId, envVars>>

FnfSleep ==
    /\ pc = "fnf_sleep"
    /\ pc' = "outer_test"
    /\ slept' = 0
    /\ UNCHANGED <<awake, envVars>>

\* lines 194-196: except Exception: save_state(error="Service error - check logs")
ExceptOther ==
    /\ pc = "except_other"
    /\ CallSaveState(NoEmail, ServiceError, "retry_test")
    /\ UNCHANGED <<running, slept, last_email_id, email_data, fetch_exc, creds, log,
                   cycleWrites, clearedId, envVars>>

\* line 197: if running (sleep 10 s), else back to the while test
RetryTest ==
    /\ pc = "retry_test"
    /\ pc' = IF running THEN "retry_sleep" ELSE "outer_test"
    /\ UNCHANGED <<locals, envVars>>

\* line 199: time.sleep(10)
RetrySleep ==
    /\ pc = "retry_sleep"
    /\ pc' = "outer_test"
    /\ slept' = 0
    /\ UNCHANGED <<awake, envVars>>

---------------------------------------------------------------------------
\* gmail_client.py: GmailClient.__init__ / _authenticate / _verify_account

\* line 46: if os.path.exists(self.token_file)
AuthExists ==
    /\ pc = "client_init"
    /\ IF token.present
       THEN pc' = "auth_load" /\ creds' = creds
       ELSE pc' = "auth_check" /\ creds' = NoToken
    /\ UNCHANGED <<ret, running, slept, last_email_id, email_data, fetch_exc, state,
                   log, save_ok,
                   cycleWrites, clearedId, envVars>>

\* lines 47-52: Credentials.from_authorized_user_file; any exception (the file
\* is gone, unreadable or not a token) -> creds = None
AuthLoad ==
    /\ pc = "auth_load"
    /\ \/ creds' = IF token.present THEN token ELSE NoToken
       \/ creds' = NoToken
    /\ pc' = "auth_check"
    /\ UNCHANGED <<ret, running, slept, last_email_id, email_data, fetch_exc, state,
                   log, save_ok,
                   cycleWrites, clearedId, envVars>>

\* credentials taken as usable whenever a token was loaded
CredsUsableIfLoaded(c) == c # NoToken

\* line 55: creds and creds.valid
CredsUsable(c) == c # NoToken /\ c.valid

\* lines 55-71: refresh an expired token, or raise
AuthCheck ==
    /\ pc = "auth_check"
    /\ IF ~CredsUsable(creds)
       THEN IF creds # NoToken /\ creds.refresh_token
            THEN \/ \* creds.refresh(Request()) succeeds
                    /\ creds' = [creds EXCEPT !.valid = TRUE]
                    /\ pc' = "auth_save"
                 \/ \* RefreshError, or another exception: both reach line 194
                    /\ creds' = creds
                    /\ pc' = "except_other"
            ELSE \* line 71: raise FileNotFoundError
                 /\ creds' = creds
                 /\ pc' = "except_fnf"
       ELSE /\ creds' = creds
            /\ pc' = "auth_save"
    /\ UNCHANGED <<ret, running, slept, last_email_id, email_data, fetch_exc, state,
                   log, save_ok,
                   cycleWrites, clearedId, envVars>>

\* lines 74-80: write creds back to the token file; a failure is only printed
AuthSave ==
    /\ pc = "auth_save"
    /\ \/ token' = creds
       \/ token' = token
    /\ pc' = "auth_verify"
    /\ UNCHANGED <<locals, noFsVars, fsVars>>

\* lines 82-87 and 89-107: build the service; _verify_account when configured.
\* On success __init__ returns and monitor_loop starts (monitor_service.py 183).
AuthVerify ==
    /\ pc = "auth_verify"
    /\ \/ \* no expected email, or the profile matches
          /\ ~expected_email \/ creds.account = "me"
          /\ pc' = "loop_test"
          /\ last_email_id' = None
       \/ \* getProfile raised: line 107 prints a warning and returns
          /\ expected_email
          /\ pc' = "loop_test"
          /\ last_email_id' = None
       \/ \* mismatch: ValueError reaches line 194
          /\ expected_email /\ creds.account # "me"
          /\ pc' = "except_other"
          /\ last_email_id' = last_email_id
    /\ UNCHANGED <<ret, running, slept, email_data, fetch_exc, state, creds, log,
                   save_ok,
                   cycleWrites, clearedId, envVars>>

---------------------------------------------------------------------------
\* monitor_service.py: monitor_loop()

\* last_email_id assigned only while it is None
NextLastEmailIdFirstOnly(data, last) ==
    IF data # NoEmail
    THEN IF last = None THEN data.id ELSE last
    ELSE None

\* last_email_id not reset by a cycle without email
NextLastEmailIdKept(data, last) ==
    IF data # NoEmail THEN data.id ELSE last

\* lines 95-100 and 109-111: the new value of last_email_id
NextLastEmailId(data, last) ==
    IF data # NoEmail
    THEN IF data.id # last THEN data.id ELSE last
    ELSE IF last # None THEN None ELSE last

\* lines 96, 102, 107-110: what the loop prints about the fetched email
LogLine(data, last) ==
    IF data # NoEmail
    THEN IF data.id # last THEN "new" ELSE "unchanged"
    ELSE IF last # None THEN "cleared" ELSE "none"

\* the except branch without its save_state call
BranchSavesUnlessError(branch) == branch \in {"email", "none"}

\* lines 105, 112, 117: every branch of the iteration calls save_state
BranchSaves(branch) == branch \in {"email", "none", "error"}

\* an except branch that re-raises after its save_state call
AfterSaveReraise(branch) ==
    IF branch = "error" THEN "except_other" ELSE "sleep_test"

\* lines 105, 112, 117 -> 120: after the save_state call of any branch the
\* iteration goes on to the test before its sleep
AfterSave(branch) == "sleep_test"

\* a loop that does not test the flag
LoopContinuesAlways(flag) == TRUE

\* line 86: while running (line 123 and main's break at 186 when it is false)
LoopContinues(flag) == flag

LoopTest ==
    /\ pc = "loop_test"
    /\ IF LoopContinues(running)
       THEN pc' = "fetch" /\ cycleWrites' = 0
       ELSE pc' = "stopped" /\ cycleWrites' = cycleWrites
    /\ UNCHANGED <<ret, running, slept, last_email_id, email_data, fetch_exc, state,
                   creds, log, save_ok, clearedId, envVars>>

\* lines 87-117: one fetch and the branch it selects; `mails` are the
\* messages the mailbox may hold
PollCycleOf(mails) ==
    /\ pc = "fetch"
    /\ \/ \E e \in mails \cup {NoEmail} :
            LET branch == IF e = NoEmail THEN "none" ELSE "email" IN
            /\ email_data' = e
            /\ fetch_exc' = FALSE
            /\ last_email_id' = NextLastEmailId(e, last_email_id)
            /\ log' = LogLine(e, last_email_id)
            /\ clearedId' = IF e # NoEmail \/ last_email_id = None
                            THEN clearedId ELSE last_email_id
            /\ IF BranchSaves(branch)
               THEN /\ CallSaveState(e, None, AfterSave(branch))
                    /\ cycleWrites' = cycleWrites + 1
               ELSE /\ pc' = "sleep_test"
                    /\ UNCHANGED <<state, ret, save_ok, cycleWrites>>
       \/ \* get_latest_livetrack_email() raised: lines 114-117
          /\ fetch_exc' = TRUE
          /\ log' = "error"
          /\ UNCHANGED <<email_data, last_email_id, clearedId>>
          /\ IF BranchSaves("error")
             THEN /\ CallSaveState(NoEmail, FetchError, AfterSave("error"))
                  /\ cycleWrites' = cycleWrites + 1
             ELSE /\ pc' = "sleep_test"
                  /\ UNCHANGED <<state, ret, save_ok, cycleWrites>>
    /\ UNCHANGED <<running, slept, creds, envVars>>

\* line 120: if running
SleepTest ==
    /\ pc = "sleep_test"
    /\ pc' = IF running THEN "loop_sleep" ELSE "loop_test"
    \* email_data, the caught exception and the printed line are dead from here
    \* on: the next iteration assigns them before any use
    /\ email_data' = NoEmail
    /\ fetch_exc' = FALSE
    /\ log' = "none"
    /\ save_ok' = FALSE
    /\ clearedId' = IF email_data # NoEmail /\ ~fetch_exc THEN None ELSE clearedId
    /\ UNCHANGED <<ret, running, slept, last_email_id, state, creds, cycleWrites, envVars>>

\* line 121: time.sleep(check_interval)
LoopSleep ==
    /\ pc = "loop_sleep"
    /\ pc' = "loop_test"
    /\ slept' = 0
    /\ UNCHANGED <<awake, envVars>>

\* lines 31-35: signal_handler, run on SIGINT or SIGTERM (registered at 129-130)
SignalHandler ==
    /\ Alive
    /\ running
    /\ running' = FALSE
    /\ UNCHANGED <<pc, ret, slept, last_email_id, email_data, fetch_exc, state,
                   creds, log, save_ok,
                   cycleWrites, clearedId, envVars>>

PollerControl ==
    \/ MainStart \/ OuterTest \/ TokCheck \/ TokWait \/ TokSleep
    \/ ExceptFileNotFound \/ FnfSleep \/ ExceptOther \/ RetryTest \/ RetrySleep
    \/ AuthExists \/ AuthLoad \/ AuthCheck \/ AuthSave \/ AuthVerify
    \/ LoopTest \/ SleepTest \/ LoopSleep
    \/ SaveOpen \/ SaveWrite \/ SaveReplace

PollCycle == PollCycleOf(Emails)

PollerStep == PollerControl \/ PollCycle

---------------------------------------------------------------------------
\* web/main.py: the routes that touch the token file and signal the Poller

\* pkill -HUP -f monitor_service (lines 329-333 and 420-424). main() installs
\* handlers for SIGINT and SIGTERM only (monitor_service.py 129-130), so SIGHUP
\* keeps its default action and terminates the process it is delivered to.
\* pkill may also fail or match nothing.
PkillHup(delivered) == IF delivered /\ Alive THEN "killed" ELSE pc

\* lines 349-358: /logout
Logout ==
    /\ token' = NoToken
    /\ UNCHANGED <<pc, locals, noFsVars, fsVars>>

\* TOKEN_FILE.unlink() without the exists() test: FileNotFoundError when the
\* file is absent
UnlinkAlways(tok) ==
    IF tok.present THEN [token |-> NoToken, deleted |-> TRUE, raised |-> FALSE]
    ELSE [token |-> tok, deleted |-> FALSE, raised |-> TRUE]

\* lines 414-416: if TOKEN_FILE.exists(): TOKEN_FILE.unlink(); print(...)
UnlinkIfExists(tok) ==
    IF tok.present THEN [token |-> NoToken, deleted |-> TRUE, raised |-> FALSE]
    ELSE [token |-> tok, deleted |-> FALSE, raised |-> FALSE]

NoReauth == [status |-> "none"]

\* lines 429-433 (200) and 435-440 (500): the JSON answer, with whether
\* line 416 printed "Deleted token file"
ReauthAnswer(u) ==
    [status |-> IF u.raised THEN "error" ELSE "success", deleted |-> u.deleted]

\* lines 402-440: /api/reauth; an exception of the unlink skips the pkill
Reauth ==
    LET u == UnlinkIfExists(token) IN
    /\ token' = u.token
    /\ reauth_out' = ReauthAnswer(u)
    /\ IF u.raised THEN pc' = pc
       ELSE \E delivered \in BOOLEAN : pc' = PkillHup(delivered)
    /\ UNCHANGED <<locals, expected_email, health_out, emVars, oaVars, readerVars, clock, clsVars,
                   fsVars>>

\* lines 296-339: /auth/callback after the state check: store the new token
AuthCallbackOf(toks) ==
    /\ \E t \in toks : token' = t
    /\ \E delivered \in BOOLEAN : pc' = PkillHup(delivered)
    /\ UNCHANGED <<locals, noFsVars, fsVars>>

\* the stored token's expiry passes: Credentials.valid (gmail_client.py 55)
\* is computed from the expiry recorded in the file
TokenExpires ==
    /\ token.present /\ token.valid
    /\ token' = [token EXCEPT !.valid = FALSE]
    /\ UNCHANGED <<pc, locals, noFsVars, fsVars>>

---------------------------------------------------------------------------
\* web/main.py: read_state()

NoResult == [pending |-> TRUE]

MissingState ==
    [url |-> None, timestamp |-> NoTime, email_id |-> None, subject |-> None,
     error |-> "Monitor service not running"]
ReadErrorState ==
    [url |-> None, timestamp |-> NoTime, email_id |-> None, subject |-> None,
     error |-> "Error reading state"]

\* line 89: if STATE_FILE.exists(), else lines 93-99
ReadExists ==
    /\ rpc = "idle"
    /\ IF path["state"] # 0
       THEN rpc' = "open" /\ rresult' = rresult
       ELSE rpc' = "done" /\ rresult' = MissingState
    /\ UNCHANGED <<pc, locals, expected_email, reauth_out, health_out, emVars, oaVars, token, fsVars, rfd, ropened,
                   clock, clsVars>>

\* line 90: open(STATE_FILE, 'r'); FileNotFoundError is caught at line 100
ReadOpen ==
    /\ rpc = "open"
    /\ IF path["state"] # 0
       THEN /\ rfd' = path["state"]
            /\ ropened' = inode[path["state"]]
            /\ rpc' = "load"
            /\ rresult' = rresult
       ELSE /\ rresult' = ReadErrorState
            /\ rpc' = "done"
            /\ UNCHANGED <<rfd, ropened>>
    /\ UNCHANGED <<pc, locals, expected_email, reauth_out, health_out, emVars, oaVars, token, fsVars, clock, clsVars>>

\* line 91: json.load(f) reads the whole file; a truncated file is a
\* JSONDecodeError, caught at line 100. The with block closes the file.
ReadLoad ==
    /\ rpc = "load"
    /\ rresult' = IF Complete(inode[rfd]) THEN inode[rfd].snap ELSE ReadErrorState
    /\ rfd' = 0
    /\ inode' = Collect(path, 0, inode)
    /\ rpc' = "done"
    /\ UNCHANGED <<pc, locals, expected_email, reauth_out, health_out, emVars, oaVars, token, path, ropened, clock,
                   clsVars>>

\* read_state() returns its dict to the route, which answers the request
ReadReturn ==
    /\ rpc = "done"
    /\ rpc' = "idle"
    /\ rresult' = NoResult
    /\ ropened' = Free
    /\ UNCHANGED <<pc, locals, expected_email, reauth_out, health_out, emVars, oaVars, token, fsVars, rfd, clock, clsVars>>

---------------------------------------------------------------------------
\* web/main.py: calculate_activity_status()

MaxAgeHours  == 24      \* ACTIVITY_MAX_AGE_HOURS
DeadAgeHours == 48      \* DEAD_ACTIVITY_MAX_AGE_HOURS

\* `now - timestamp` (line 135): `now` is tz-aware, so the subtraction raises
\* TypeError on a naive timestamp; the except at line 148 only prints
AgeComputable(timestamp_str) ==
    timestamp_str # NoTime /\ fromisoformat(timestamp_str)[2]

AgeSeconds(timestamp_str, now) == now - fromisoformat(timestamp_str)[1]

\* age_hours > h, with age_hours = total_seconds() / 3600
OlderThan(secs, h) == secs > h * 3600

\* a classifier that keeps the url in the answer for a dead activity
calculate_activity_status_dead_url(st, now) ==
    LET known == st.timestamp # <<>> /\ st.timestamp[3]
        secs == now - st.timestamp[2]
    IN IF known /\ secs > 48 * 3600
       THEN [url |-> st.url, timestamp |-> <<>>, is_stale |-> FALSE,
             age_hours |-> <<>>, status |-> "waiting"]
       ELSE LET is_stale == known /\ secs > 24 * 3600 IN
            [url |-> st.url, timestamp |-> st.timestamp, is_stale |-> is_stale,
             age_hours |-> IF known THEN <<secs>> ELSE <<>>,
             status |-> IF st.url # "None" /\ ~is_stale THEN "active"
                        ELSE IF st.url # "None" /\ is_stale THEN "last_activity"
                        ELSE "waiting"]

calculate_activity_status(st, now) ==
    LET url == st.url
        timestamp_str == st.timestamp
        known == AgeComputable(timestamp_str)
        secs == AgeSeconds(timestamp_str, now)
    IN IF known /\ OlderThan(secs, DeadAgeHours)
       THEN [url |-> None, timestamp |-> NoTime, is_stale |-> FALSE,
             age_hours |-> <<>>, status |-> "waiting"]
       ELSE LET is_stale == known /\ OlderThan(secs, MaxAgeHours) IN
            [url |-> url, timestamp |-> timestamp_str, is_stale |-> is_stale,
             age_hours |-> IF known THEN <<secs>> ELSE <<>>,
             status |-> IF url # None /\ ~is_stale THEN "active"
                        ELSE IF url # None /\ is_stale THEN "last_activity"
                        ELSE "waiting"]

Pending == [status |-> "pending"]

\* lines 368-369 of get_current: classify the dict read_state() returned
Classify ==
    /\ cls_out = Pending
    /\ cls_out' = calculate_activity_status(cls_state, cls_now)
    /\ UNCHANGED <<pc, locals, expected_email, reauth_out, health_out, emVars, oaVars, token, fsVars, readerVars, clock,
                   cls_state, cls_now>>

---------------------------------------------------------------------------
\* web/main.py: health()

\* EMAIL_CHECK_INTERVAL, set to one second; the clock counts seconds
CheckInterval == 1

\* a threshold that counts the age of exactly two intervals as recent
RecentInclusive(state_age, check_interval) == state_age <= (check_interval * 2)

\* line 391: state_age < (check_interval * 2)
Recent(state_age, check_interval) == state_age < (check_interval * 2)

\* a read_state() that answers a missing file like an unreadable one
ReadStateOfUnreadable(f) ==
    IF f = Free THEN ReadErrorState
    ELSE IF Complete(f) THEN f.snap ELSE ReadErrorState

\* read_state() on a file that is not being replaced meanwhile
ReadStateOf(f) ==
    IF f = Free THEN MissingState
    ELSE IF Complete(f) THEN f.snap ELSE ReadErrorState

NoHealth == [web_service |-> "none"]

\* lines 379-399: the JSON answer for the state file content f at time now
HealthAnswer(f, now) ==
    LET st == ReadStateOf(f)
        exists == f # Free
        monitor_healthy == exists /\ Recent(now - f.mtime, CheckInterval)
    IN [web_service       |-> "healthy",
        monitor_service   |-> IF monitor_healthy THEN "healthy" ELSE "stale",
        state_age_seconds |-> IF exists THEN <<now - f.mtime>> ELSE <<>>,
        state_file_exists |-> exists,
        has_activity      |-> st.url # None]

\* GET /api/health
Health ==
    /\ health_out' = HealthAnswer(IF path["state"] = 0 THEN Free
                                  ELSE inode[path["state"]], clock)
    /\ UNCHANGED <<pc, locals, expected_email, reauth_out, emVars, oaVars,
                   token, fsVars, readerVars, clock, clsVars>>

\* a status route that removes the state file once it has read it
GetCurrentConsuming ==
    /\ cls_state' = ReadStateOf(IF path["state"] = 0 THEN Free
                                ELSE inode[path["state"]])
    /\ cls_now' = clock
    /\ cls_out' = calculate_activity_status(cls_state', cls_now')
    /\ path' = [path EXCEPT !["state"] = 0]
    /\ inode' = [i \in DOMAIN inode |->
                    IF i = path["state"] THEN [free |-> TRUE] ELSE inode[i]]
    /\ UNCHANGED <<pc, locals, expected_email, reauth_out, health_out, emVars, oaVars, token,
                   readerVars, clock>>

\* GET /api/current: read_state() then calculate_activity_status()
GetCurrent ==
    /\ cls_state' = ReadStateOf(IF path["state"] = 0 THEN Free
                                ELSE inode[path["state"]])
    /\ cls_now' = clock
    /\ cls_out' = calculate_activity_status(cls_state', cls_now')
    /\ UNCHANGED <<pc, locals, expected_email, reauth_out, health_out, emVars, oaVars, token,
                   fsVars, readerVars, clock>>

---------------------------------------------------------------------------
\* web/main.py: save_oauth_state(), load_oauth_state(), /auth/start and
\* /auth/callback. A state is a positive number, 0 stands for None, and a
\* file whose state is 0 holds text that does not parse yet.

OAuthFile(st, held) == [exists |-> TRUE, state |-> st, open |-> held]

pollerAndReaders == <<pc, locals, expected_email, reauth_out, health_out, emVars,
                      token, fsVars, readerVars, clock, clsVars>>

\* lines 250-254: flow.authorization_url() makes a new state
SoStart ==
    /\ so_pc = "idle" /\ issued < MaxFlows
    /\ issued' = issued + 1
    /\ so_state' = issued + 1
    /\ so_pc' = "open"
    /\ UNCHANGED <<oauth_file, cb_pc, cb_request_state, cb_data, authorised, rqVars>>
    /\ UNCHANGED pollerAndReaders

\* line 61: open(OAUTH_STATE_FILE, 'w') creates the file or truncates it;
\* an exception is caught at line 64
SoOpen ==
    /\ so_pc = "open"
    /\ \/ oauth_file' = OAuthFile(0, TRUE) /\ so_pc' = "dump"
       \/ oauth_file' = oauth_file /\ so_pc' = "idle"
    /\ UNCHANGED <<issued, so_state, cb_pc, cb_request_state, cb_data, authorised, rqVars>>
    /\ UNCHANGED pollerAndReaders

\* line 62: json.dump({'state': state}, f) and the close; the text goes to
\* the file that was opened, which may have been unlinked meanwhile
SoDump ==
    /\ so_pc = "dump"
    /\ oauth_file' = IF oauth_file.exists /\ oauth_file.open
                     THEN OAuthFile(so_state, FALSE) ELSE oauth_file
    /\ so_pc' = "idle"
    /\ UNCHANGED <<issued, so_state, cb_pc, cb_request_state, cb_data, authorised, rqVars>>
    /\ UNCHANGED pollerAndReaders

\* line 283: a request arrives with any state parameter, or with none
CbRequest(w) ==
    /\ cb_pc[w] = "idle"
    /\ \E rs \in 0..MaxFlows :
          cb_request_state' = [cb_request_state EXCEPT ![w] = rs]
    /\ cb_pc' = [cb_pc EXCEPT ![w] = "exists"]
    /\ UNCHANGED <<oauth_file, issued, so_pc, so_state, cb_data, authorised, rqVars>>
    /\ UNCHANGED pollerAndReaders

\* line 71: if OAUTH_STATE_FILE.exists(), else line 79
CbExists(w) ==
    /\ cb_pc[w] = "exists"
    /\ cb_pc' = [cb_pc EXCEPT ![w] = IF oauth_file.exists THEN "load" ELSE "check"]
    /\ cb_data' = [cb_data EXCEPT ![w] = 0]
    /\ UNCHANGED <<oauth_file, issued, so_pc, so_state, cb_request_state,
                   authorised, rqVars>>
    /\ UNCHANGED pollerAndReaders

\* lines 72-73: open and json.load; FileNotFoundError and JSONDecodeError
\* are caught at line 77 and None is returned at line 79
CbLoad(w) ==
    /\ cb_pc[w] = "load"
    /\ IF oauth_file.exists /\ oauth_file.state # 0
       THEN /\ cb_data' = [cb_data EXCEPT ![w] = oauth_file.state]
            /\ cb_pc' = [cb_pc EXCEPT ![w] = "unlink"]
       ELSE /\ cb_data' = [cb_data EXCEPT ![w] = 0]
            /\ cb_pc' = [cb_pc EXCEPT ![w] = "check"]
    /\ UNCHANGED <<oauth_file, issued, so_pc, so_state, cb_request_state,
                   authorised, rqVars>>
    /\ UNCHANGED pollerAndReaders

\* lines 75-76: OAUTH_STATE_FILE.unlink() then return data.get('state');
\* FileNotFoundError is caught at line 77 and None is returned at line 79
UnlinkThenReturn(f, data) ==
    IF f.exists THEN [file |-> NoOAuthFile, data |-> data]
    ELSE [file |-> f, data |-> 0]

CbUnlink(w) ==
    /\ cb_pc[w] = "unlink"
    /\ LET u == UnlinkThenReturn(oauth_file, cb_data[w]) IN
          /\ oauth_file' = u.file
          /\ cb_data' = [cb_data EXCEPT ![w] = u.data]
    /\ cb_pc' = [cb_pc EXCEPT ![w] = "check"]
    /\ UNCHANGED <<issued, so_pc, so_state, cb_request_state, authorised, rqVars>>
    /\ UNCHANGED pollerAndReaders

\* lines 288-294: both states present and equal, else answer 400
StateAccepted(request_state, saved_state) ==
    request_state # 0 /\ saved_state # 0 /\ request_state = saved_state

CbCheck(w) ==
    /\ cb_pc[w] = "check"
    /\ IF StateAccepted(cb_request_state[w], cb_data[w])
       THEN /\ cb_pc' = [cb_pc EXCEPT ![w] = "exchange"]
            /\ authorised' = [authorised EXCEPT ![cb_data[w]] = @ + 1]
            /\ UNCHANGED <<cb_request_state, cb_data>>
       ELSE /\ cb_pc' = [cb_pc EXCEPT ![w] = "idle"]
            /\ cb_request_state' = [cb_request_state EXCEPT ![w] = 0]
            /\ cb_data' = [cb_data EXCEPT ![w] = 0]
            /\ UNCHANGED authorised
    /\ UNCHANGED <<oauth_file, issued, so_pc, so_state, rqVars>>
    /\ UNCHANGED pollerAndReaders

\* lines 296-345: the exchange; it stores the token and signals the Poller,
\* or fails and answers 500
CbExchange(w) ==
    /\ cb_pc[w] = "exchange"
    /\ \/ /\ \E t \in LongLivedTokens : token' = t
          /\ \E delivered \in BOOLEAN : pc' = PkillHup(delivered)
       \/ UNCHANGED <<token, pc>>
    /\ cb_pc' = [cb_pc EXCEPT ![w] = "idle"]
    /\ cb_request_state' = [cb_request_state EXCEPT ![w] = 0]
    /\ cb_data' = [cb_data EXCEPT ![w] = 0]
    /\ UNCHANGED <<oauth_file, issued, so_pc, so_state, authorised, rqVars>>
    /\ UNCHANGED <<locals, expected_email, reauth_out, health_out, emVars,
                   fsVars, readerVars, clock, clsVars>>

AuthCallbackStep(w) ==
    \/ CbRequest(w) \/ CbExists(w) \/ CbLoad(w) \/ CbUnlink(w)
    \/ CbCheck(w) \/ CbExchange(w)

---------------------------------------------------------------------------
\* web/main.py: /logout and /api/reauth handled by the workers of app.run()

Routes == {"logout", "reauth"}

\* the frame of a step of a request of /logout or /api/reauth
routeFrame == <<locals, expected_email, reauth_out, health_out, emVars,
                oauth_file, issued, so_pc, so_state, cb_pc, cb_request_state,
                cb_data, authorised, fsVars, readerVars, clock, clsVars>>

\* how a request leaves its view function: print and answer
RqReturn(w, out) ==
    /\ rq_pc' = [rq_pc EXCEPT ![w] = "idle"]
    /\ rq_out' = [rq_out EXCEPT ![w] = out]

\* a worker takes a request of /logout (line 349) or /api/reauth (line 402)
\* and enters the try block
RqBegin(w, route) ==
    /\ rq_pc[w] = "idle"
    /\ rq_route' = [rq_route EXCEPT ![w] = route]
    /\ rq_pc' = [rq_pc EXCEPT ![w] = "exists"]
    /\ rq_out' = [rq_out EXCEPT ![w] = "none"]
    /\ UNCHANGED <<pc, token, routeFrame>>

\* lines 353 and 414: if TOKEN_FILE.exists(); without the file /logout goes
\* on to lines 357-358 and returns its redirect, /api/reauth to the pkill
RqExists(w) ==
    /\ rq_pc[w] = "exists"
    /\ IF token.present
       THEN rq_pc' = [rq_pc EXCEPT ![w] = "unlink"] /\ rq_out' = rq_out
       ELSE IF rq_route[w] = "logout"
            THEN RqReturn(w, "success")
            ELSE rq_pc' = [rq_pc EXCEPT ![w] = "pkill"] /\ rq_out' = rq_out
    /\ UNCHANGED <<pc, token, rq_route, routeFrame>>

\* lines 354-358 and 415-416: TOKEN_FILE.unlink(); its FileNotFoundError is
\* caught at line 360 or 435 and answered with 500
RqUnlink(w) ==
    LET u == UnlinkAlways(token) IN
    /\ rq_pc[w] = "unlink"
    /\ token' = u.token
    /\ IF u.raised THEN RqReturn(w, "error")
       ELSE IF rq_route[w] = "logout"
            THEN RqReturn(w, "success")
            ELSE rq_pc' = [rq_pc EXCEPT ![w] = "pkill"] /\ rq_out' = rq_out
    /\ UNCHANGED <<pc, rq_route, routeFrame>>

\* lines 419-433: /api/reauth runs pkill and answers 200
RqPkill(w) ==
    /\ rq_pc[w] = "pkill"
    /\ \E delivered \in BOOLEAN : pc' = PkillHup(delivered)
    /\ RqReturn(w, "success")
    /\ UNCHANGED <<token, rq_route, routeFrame>>

---------------------------------------------------------------------------
\* email_monitor.py: EmailMonitor

Callbacks == 1..NCallbacks
NoCalls == [c \in Callbacks |-> 0]

\* a callback loop that an exception of a callback leaves
NextCallbackUnlessRaised(i, raised) == IF raised THEN NCallbacks + 1 ELSE i + 1

\* lines 82-86 and 98-102: the exception of a callback is caught inside the
\* for loop, which goes on with the next callback
NextCallback(i, raised) == i + 1

\* lines 40-48: start()
EmStart ==
    /\ em_pc = "idle" /\ ~em_running
    /\ em_running' = TRUE
    /\ em_pc' = "first"
    /\ UNCHANGED <<current_livetrack_url, em_last_email_id, em_url, em_i,
                   em_calls, em_stopped, thVars>>
    /\ UNCHANGED <<pc, locals, expected_email, reauth_out, health_out, oaVars,
                   token, fsVars, readerVars, clock, clsVars>>

\* lines 50-55: stop() clears the flag; its join gives up after 5 s
EmStop ==
    /\ em_pc # "idle" /\ ~em_stopped
    /\ em_running' = FALSE
    /\ em_stopped' = TRUE
    /\ UNCHANGED <<em_pc, current_livetrack_url, em_last_email_id, em_url, em_i,
                   em_calls, thVars>>
    /\ UNCHANGED <<pc, locals, expected_email, reauth_out, health_out, oaVars,
                   token, fsVars, readerVars, clock, clsVars>>

\* line 61: while self._running
EmLoopTest ==
    /\ em_pc = "test"
    /\ em_pc' = IF em_running THEN "sleep" ELSE "ended"
    /\ UNCHANGED <<em_running, current_livetrack_url, em_last_email_id, em_url,
                   em_i, em_calls, em_stopped, thVars>>
    /\ UNCHANGED <<pc, locals, expected_email, reauth_out, health_out, oaVars,
                   token, fsVars, readerVars, clock, clsVars>>

\* line 62: time.sleep(self.check_interval) returns
EmSleep ==
    /\ em_pc = "sleep"
    /\ em_pc' = "wake"
    /\ UNCHANGED <<em_running, current_livetrack_url, em_last_email_id, em_url,
                   em_i, em_calls, em_stopped, thVars>>
    /\ UNCHANGED <<pc, locals, expected_email, reauth_out, health_out, oaVars,
                   token, fsVars, readerVars, clock, clsVars>>

\* lines 59 and 63, then 66-78 and 89-96: _check_for_updates() fetches and
\* compares; `mails` are the messages the mailbox may hold
EmCheckOf(mails) ==
    /\ em_pc \in {"first", "wake"}
    /\ em_calls' = NoCalls
    /\ \/ \E e \in mails :
            IF e.id # em_last_email_id \/ e.livetrack_url # current_livetrack_url
            THEN /\ em_last_email_id' = e.id
                 /\ current_livetrack_url' = e.livetrack_url
                 /\ em_url' = e.livetrack_url
                 /\ em_i' = 1
                 /\ em_pc' = "notify"
            ELSE /\ em_pc' = "test"
                 /\ UNCHANGED <<em_last_email_id, current_livetrack_url, em_url,
                                em_i>>
       \/ \* no LiveTrack email: lines 89-96
          IF current_livetrack_url # None
          THEN /\ current_livetrack_url' = None
               /\ em_last_email_id' = None
               /\ em_url' = None
               /\ em_i' = 1
               /\ em_pc' = "notify"
          ELSE /\ em_pc' = "test"
               /\ UNCHANGED <<em_last_email_id, current_livetrack_url, em_url,
                              em_i>>
       \/ \* get_latest_livetrack_email() raised: lines 104-105
          /\ em_pc' = "test"
          /\ UNCHANGED <<em_last_email_id, current_livetrack_url, em_url, em_i>>
    /\ UNCHANGED <<em_running, em_stopped, thVars>>
    /\ UNCHANGED <<pc, locals, expected_email, reauth_out, health_out, oaVars,
                   token, fsVars, readerVars, clock, clsVars>>

\* lines 81-86 and 98-102: one pass of `for callback in self.callbacks`,
\* the callback returning or raising
EmCallback ==
    /\ em_pc = "notify"
    /\ em_calls' = [em_calls EXCEPT ![em_i] = @ + 1]
    /\ \E raised \in BOOLEAN :
          /\ em_i' = NextCallback(em_i, raised)
          /\ em_pc' = IF em_i' > NCallbacks THEN "test" ELSE "notify"
    /\ UNCHANGED <<em_running, current_livetrack_url, em_last_email_id, em_url,
                   em_stopped, thVars>>
    /\ UNCHANGED <<pc, locals, expected_email, reauth_out, health_out, oaVars,
                   token, fsVars, readerVars, clock, clsVars>>

\* the threads a run of the program may create
Threads == 1..MaxThreads

\* lines 40-48: start(), a no-op while _running is set; else it sets the flag
\* and keeps in _thread the new thread, which begins with its initial check
ThStart ==
    /\ caller_pc = "idle"
    /\ IF em_running
       THEN UNCHANGED <<em_running, th_pc, em_thread>>
       ELSE /\ em_thread < MaxThreads
            /\ em_running' = TRUE
            /\ em_thread' = em_thread + 1
            /\ th_pc' = [th_pc EXCEPT ![em_thread + 1] = "first"]
    /\ UNCHANGED <<caller_pc, em_pc, current_livetrack_url, em_last_email_id,
                   em_url, em_i, em_calls, em_stopped>>
    /\ UNCHANGED <<pc, locals, expected_email, reauth_out, health_out, oaVars,
                   token, fsVars, readerVars, clock, clsVars>>

\* lines 50-53: stop() clears the flag and joins _thread when there is one
ThStop ==
    /\ caller_pc = "idle"
    /\ em_running' = FALSE
    /\ caller_pc' = IF em_thread # 0 THEN "join" ELSE "idle"
    /\ UNCHANGED <<th_pc, em_thread, em_pc, current_livetrack_url,
                   em_last_email_id, em_url, em_i, em_calls, em_stopped>>
    /\ UNCHANGED <<pc, locals, expected_email, reauth_out, health_out, oaVars,
                   token, fsVars, readerVars, clock, clsVars>>

\* lines 54-55: join(timeout=5) returns when the thread has ended, or after
\* 5 s while the thread is still in time.sleep(check_interval) (30 s unless
\* configured, main.py 93) or in the request of a check
ThJoin ==
    /\ caller_pc = "join"
    /\ th_pc[em_thread] \in {"ended", "sleep", "first", "wake"}
    /\ caller_pc' = "idle"
    /\ UNCHANGED <<th_pc, em_thread, em_pc, em_running, current_livetrack_url,
                   em_last_email_id, em_url, em_i, em_calls, em_stopped>>
    /\ UNCHANGED <<pc, locals, expected_email, reauth_out, health_out, oaVars,
                   token, fsVars, readerVars, clock, clsVars>>

\* line 62: while self._running, read by thread t
ThLoopTest(t) ==
    /\ th_pc[t] = "test"
    /\ th_pc' = [th_pc EXCEPT ![t] = IF em_running THEN "sleep" ELSE "ended"]
    /\ UNCHANGED <<em_thread, caller_pc, em_pc, em_running,
                   current_livetrack_url, em_last_email_id, em_url, em_i,
                   em_calls, em_stopped>>
    /\ UNCHANGED <<pc, locals, expected_email, reauth_out, health_out, oaVars,
                   token, fsVars, readerVars, clock, clsVars>>

\* lines 63-64: time.sleep(self.check_interval) returns in thread t, which
\* calls _check_for_updates()
ThSleep(t) ==
    /\ th_pc[t] = "sleep"
    /\ th_pc' = [th_pc EXCEPT ![t] = "wake"]
    /\ UNCHANGED <<em_thread, caller_pc, em_pc, em_running,
                   current_livetrack_url, em_last_email_id, em_url, em_i,
                   em_calls, em_stopped>>
    /\ UNCHANGED <<pc, locals, expected_email, reauth_out, health_out, oaVars,
                   token, fsVars, readerVars, clock, clsVars>>

\* lines 66-108: the _check_for_updates() call of thread t gets the answer of
\* its fetch, compares, stores and runs the callback loop to its end
ThCheckOf(t, mails) ==
    /\ th_pc[t] \in {"first", "wake"}
    /\ th_pc' = [th_pc EXCEPT ![t] = "test"]
    /\ \/ \E e \in mails :
            IF e.id # em_last_email_id \/ e.livetrack_url # current_livetrack_url
            THEN /\ em_last_email_id' = e.id
                 /\ current_livetrack_url' = e.livetrack_url
                 /\ em_calls' = [c \in Callbacks |-> 1]
            ELSE /\ em_calls' = NoCalls
                 /\ UNCHANGED <<em_last_email_id, current_livetrack_url>>
       \/ IF current_livetrack_url # None
          THEN /\ current_livetrack_url' = None
               /\ em_last_email_id' = None
               /\ em_calls' = [c \in Callbacks |-> 1]
          ELSE /\ em_calls' = NoCalls
               /\ UNCHANGED <<em_last_email_id, current_livetrack_url>>
       \/ /\ em_calls' = NoCalls
          /\ UNCHANGED <<em_last_email_id, current_livetrack_url>>
    /\ UNCHANGED <<em_thread, caller_pc, em_pc, em_running, em_url, em_i,
                   em_stopped>>
    /\ UNCHANGED <<pc, locals, expected_email, reauth_out, health_out, oaVars,
                   token, fsVars, readerVars, clock, clsVars>>

\* time passes
Tick ==
    /\ clock < MaxClock
    /\ clock' = clock + 1
    /\ UNCHANGED <<pc, locals, expected_email, reauth_out, health_out, emVars, oaVars, token, fsVars, readerVars, clsVars>>

---------------------------------------------------------------------------
\* the state when main() has registered its signal handlers (line 130): no
\* state file yet, the token file present or not
InitMemory ==
    /\ pc = "main_init"
    /\ ret = "outer_test"
    /\ running = TRUE
    /\ last_email_id = None
    /\ email_data = NoEmail
    /\ fetch_exc = FALSE
    /\ state = NoState
    /\ creds = NoToken
    /\ expected_email \in BOOLEAN
    /\ log = "none"
    /\ token \in {NoToken} \cup LongLivedTokens
    /\ rpc = "idle"
    /\ rfd = 0
    /\ rresult = NoResult
    /\ ropened = Free
    /\ clock = 0
    /\ cls_out = Pending
    /\ cycleWrites = 0
    /\ clearedId = None
    /\ save_ok = FALSE
    /\ slept = 0
    /\ reauth_out = NoReauth
    /\ health_out = NoHealth
    /\ em_pc = "idle"
    /\ em_running = FALSE
    /\ current_livetrack_url = None
    /\ em_last_email_id = None
    /\ em_url = None
    /\ em_i = 0
    /\ em_calls = NoCalls
    /\ em_stopped = FALSE
    /\ th_pc = [t \in Threads |-> "none"]
    /\ em_thread = 0
    /\ caller_pc = "idle"
    /\ oauth_file = NoOAuthFile
    /\ issued = 0
    /\ so_pc = "idle"
    /\ so_state = 0
    /\ cb_pc = [w \in Workers |-> "idle"]
    /\ cb_request_state = [w \in Workers |-> 0]
    /\ cb_data = [w \in Workers |-> 0]
    /\ rq_route = [w \in Workers |-> "none"]
    /\ rq_pc = [w \in Workers |-> "idle"]
    /\ rq_out = [w \in Workers |-> "none"]
    /\ authorised = [s \in 1..MaxFlows |-> 0]

\* no state file and no temporary file yet
InitFiles ==
    /\ path = [q \in {"state", "tmp"} |-> 0]
    /\ inode = [i \in 1..NInodes |-> Free]

InitProcesses == InitMemory /\ InitFiles

Init ==
    /\ InitProcesses
    /\ cls_state = MissingState
    /\ cls_now = 0

\* The Poller, the signals it receives and the web routes that change the token
Next ==
    \/ PollerStep
    \/ SignalHandler
    \/ Logout \/ Reauth \/ AuthCallbackOf(LongLivedTokens)

Spec == Init /\ [][Next]_vars

\* The Poller and a reader of the state file
NextStore ==
    \/ PollerControl \/ PollCycleOf(StoreEmails)
    \/ ReadExists \/ ReadOpen \/ ReadLoad \/ ReadReturn
    \/ Logout

SpecStore == Init /\ [][NextStore]_vars

\* The Poller with one message in the mailbox, every step of it taken
\* eventually: the interpreter keeps running the process, sleeps end and
\* network and file calls return
ShutdownEmails == {Email("e1", "u1", Stamp(0, TRUE))}

NextShutdown ==
    \/ PollerControl \/ PollCycleOf(ShutdownEmails)
    \/ SignalHandler
    \/ Logout \/ Reauth \/ AuthCallbackOf(LongLivedTokens)

SpecShutdown ==
    /\ Init
    /\ [][NextShutdown]_vars
    /\ WF_vars(PollerControl \/ PollCycleOf(ShutdownEmails))

\* The Poller beside an authorization exchange that may come without a
\* refresh token, the stored token's expiry and logout; every step of the
\* Poller is taken eventually
NextAuth ==
    \/ PollerControl \/ PollCycleOf(ShutdownEmails)
    \/ SignalHandler
    \/ Logout \/ AuthCallbackOf(FreshTokens) \/ TokenExpires

SpecAuth ==
    /\ Init
    /\ [][NextAuth]_vars
    /\ WF_vars(PollerControl \/ PollCycleOf(ShutdownEmails))

\* lines 165, 192 and 199 of main() and line 121 of monitor_loop: the
\* argument of each time.sleep() call, in seconds
SleepSeconds(p) ==
    CASE p = "tok_sleep" -> 5
      [] p = "fnf_sleep" -> 5
      [] p = "retry_sleep" -> 10
      [] p = "loop_sleep" -> CheckInterval

\* a second passes during a time.sleep() call that has not lasted its
\* argument yet, or after the process ended; at the resolution of the clock
\* the steps between two sleeps take no time
TickAsleep ==
    /\ clock < MaxClock
    /\ clock' = clock + 1
    /\ \/ /\ pc \in {"tok_sleep", "fnf_sleep", "retry_sleep", "loop_sleep"}
          /\ slept < SleepSeconds(pc)
          /\ slept' = slept + 1
       \/ /\ pc \in {"stopped", "killed"}
          /\ slept' = slept
    /\ UNCHANGED <<pc, awake, expected_email, reauth_out, health_out, emVars,
                   oaVars, token, fsVars, readerVars, clsVars>>

\* The Poller with one message in the mailbox while time passes and the
\* health route is queried
NextHealth ==
    \/ PollerControl \/ PollCycleOf(ShutdownEmails)
    \/ TickAsleep
    \/ Health

SpecHealth == Init /\ [][NextHealth]_vars

\* The Poller alone, polling a mailbox of two messages while time passes
NextCycles ==
    \/ PollerControl \/ PollCycleOf(StoreEmails)
    \/ TickAsleep

SpecCycles == Init /\ [][NextCycles]_vars

\* /auth/start and two requests of /auth/callback handled at the same time
NextOAuth ==
    \/ SoStart \/ SoOpen \/ SoDump
    \/ \E w \in Workers : AuthCallbackStep(w)

SpecOAuth == Init /\ [][NextOAuth]_vars

\* The EmailMonitor thread with its start() and stop()
NextMonitor ==
    \/ EmStart \/ EmStop
    \/ EmLoopTest \/ EmSleep
    \/ EmCheckOf(Emails) \/ EmCallback

SpecMonitor == Init /\ [][NextMonitor]_vars

\* Two workers, one handling requests of /api/reauth and the other requests
\* of /logout or /api/reauth
NextRoutes ==
    \/ RqBegin("w1", "reauth")
    \/ \E route \in Routes : RqBegin("w2", route)
    \/ \E w \in Workers : RqExists(w) \/ RqUnlink(w) \/ RqPkill(w)

SpecRoutes == Init /\ [][NextRoutes]_vars

\* The threads of one EmailMonitor and the caller of its start() and stop()
NextThreads ==
    \/ ThStart \/ ThStop \/ ThJoin
    \/ \E t \in Threads :
          ThLoopTest(t) \/ ThSleep(t) \/ ThCheckOf(t, Emails)

SpecThreads == Init /\ [][NextThreads]_vars

\* The Poller and the two routes that report on the state file
NextQuery ==
    \/ PollerControl \/ PollCycleOf(ShutdownEmails)
    \/ GetCurrent
    \/ Health

SpecQuery == Init /\ [][NextQuery]_vars

\* mailbox contents for the status route: an event of this instant, and
\* events just past the dead threshold whose Date header carried an offset or
\* none, and one whose date could not be parsed
PastDeadSecs == 0 - (DeadAgeHours * 3600 + MaxDelta)
ConvergeEmails ==
    {Email("e1", "u1", Stamp(0, TRUE)),
     Email("e2", "u2", Stamp(PastDeadSecs, TRUE)),
     Email("e3", "u3", Stamp(PastDeadSecs, FALSE)),
     Email("e4", "u4", NoTime)}

\* The Poller and the status route
NextConverge ==
    \/ PollerControl \/ PollCycleOf(ConvergeEmails)
    \/ GetCurrent

SpecConverge == Init /\ [][NextConverge]_vars

\* calculate_activity_status on every snapshot the Poller can write and on
\* the two dicts read_state() makes up, at instants around the thresholds
ClassifyStamps ==
    {NoTime} \cup {Stamp(t, aware) : t \in 0..MaxStamp, aware \in BOOLEAN}

ClassifyStates ==
    {SaveStateDict(Email("e1", "u1", ts), None, 0) : ts \in ClassifyStamps}
    \cup {SaveStateDict(NoEmail, e, 0) : e \in Errors \cup {None}}
    \cup {MissingState, ReadErrorState}

ClassifyAges ==
    {0, 30 * 3600, 50 * 3600}
    \cup {h * 3600 + d : h \in {MaxAgeHours, DeadAgeHours}, d \in (0 - MaxDelta)..MaxDelta}

InitClassify ==
    /\ InitProcesses
    /\ ~expected_email
    /\ token = NoToken
    /\ cls_state \in ClassifyStates
    /\ cls_now \in {t + a : t \in 0..MaxStamp, a \in ClassifyAges}

SpecClassify == InitClassify /\ [][Classify]_vars

\* GET /api/current on every condition of the state file: missing, cut short
\* at any chunk, holding an error snapshot, holding the snapshot of an event
\* of any age around the thresholds
StatusSnapshots ==
    {SaveStateDict(Email("e1", "u1", ts), None, 0) :
        ts \in {NoTime} \cup {Stamp(0 - a, aware) :
                                a \in ClassifyAges, aware \in BOOLEAN}}
    \cup {SaveStateDict(NoEmail, e, 0) : e \in Errors \cup {None}}

StatusFiles ==
    {Free} \cup {File(NoState, n, 0) : n \in 0..(NChunks - 1)}
    \cup {File(snap, NChunks, 0) : snap \in StatusSnapshots}

InitStatus ==
    /\ InitMemory
    /\ cls_state = MissingState
    /\ cls_now = 0
    /\ \E f \in StatusFiles :
          /\ path = [q \in {"state", "tmp"} |->
                        IF q = "state" /\ f # Free THEN 1 ELSE 0]
          /\ inode = [i \in 1..NInodes |-> IF i = 1 THEN f ELSE Free]

SpecStatus == InitStatus /\ [][GetCurrent]_vars

---------------------------------------------------------------------------
\* Properties

SavePcs == {"save_open", "save_write", "save_replace"}

\* the Poller is inside the save_state call of a monitor_loop iteration
InCycleSave == pc \in SavePcs /\ ret = "sleep_test"

\* content of STATE_FILE
StateFile == IF path["state"] = 0 THEN Free ELSE inode[path["state"]]

\* C1: every monitor_loop iteration makes exactly one save_state call, whatever
\* its fetch returned or raised: none before the fetch, one from the branch
\* taken on, and still one when the iteration reaches its sleep.
C1_OneSavePerIteration ==
    /\ cycleWrites \in {0, 1}
    /\ pc = "fetch" => cycleWrites = 0
    /\ (InCycleSave \/ pc \in {"sleep_test", "loop_sleep"}) => cycleWrites = 1

C1_Witness == pc = "sleep_test" /\ fetch_exc /\ cycleWrites = 1

\* C2: the state file, whenever it exists, holds a completely written dict; the
\* inode a reader holds open is complete and is not changed under it; and what
\* read_state returns is the dict that was in the state file when the reader
\* opened it (or the "not running" dict when there was no file), never a
\* truncated text.
C2_ReaderSeesWholeSnapshot ==
    /\ path["state"] # 0 => Complete(StateFile)
    /\ rpc = "load" => Complete(inode[rfd]) /\ inode[rfd] = ropened
    /\ rpc = "done" => \/ rresult = MissingState /\ ropened = Free
                       \/ Complete(ropened) /\ rresult = ropened.snap

\* the Poller replaced the state file while the reader holds the old one open
C2_Witness == rpc = "load" /\ rfd # path["state"] /\ path["state"] # 0

\* C3: a monitor_loop iteration that begins when the token file has been
\* removed does not go on to fetch.
C3_RemovedTokenStopsFetching ==
    [][(pc = "loop_test" /\ ~token.present) => pc' # "fetch"]_vars

\* C4: the SIGHUP the web process sends never stops the Poller process.
C4_SighupNeverStopsPoller == pc # "killed"

\* C5: in an iteration whose fetch raised, the dict handed to the state file
\* has url, timestamp and email_id None and error set, the loop goes on to its
\* write and its sleep test, and the state file holds that dict when the write
\* succeeded; in an iteration whose fetch returned, the dict has error None and
\* the fetched url (None without email), and so has the state file after it.
C5_FailedFetchSnapshot ==
    /\ (InCycleSave /\ fetch_exc) =>
          /\ state.url = None /\ state.timestamp = NoTime /\ state.email_id = None
          /\ state.error # None
    /\ (InCycleSave /\ ~fetch_exc) =>
          /\ state.error = None
          /\ state.url = IF email_data = NoEmail THEN None
                         ELSE email_data.livetrack_url
    /\ pc = "save_replace" =>
          /\ Complete(inode[path[TempFileFor("state")]])
          /\ inode[path[TempFileFor("state")]].snap = state
    /\ (pc = "sleep_test" /\ save_ok /\ fetch_exc) =>
          /\ StateFile.snap.url = None /\ StateFile.snap.timestamp = NoTime
          /\ StateFile.snap.email_id = None /\ StateFile.snap.error # None
    /\ (pc = "sleep_test" /\ save_ok /\ ~fetch_exc) =>
          /\ StateFile.snap.error = None
          /\ StateFile.snap.url = IF email_data = NoEmail THEN None
                                  ELSE email_data.livetrack_url
    /\ (fetch_exc /\ Alive) => InCycleSave \/ pc = "sleep_test"

\* a cycle that fetched an email is replacing the snapshot a failed cycle wrote
C5_Witness ==
    /\ pc = "save_replace" /\ ret = "sleep_test" /\ ~fetch_exc
    /\ StateFile # Free /\ StateFile.snap.error = FetchError
    /\ state.error = None /\ state.url # None

\* C6: after an iteration that fetched an email, last_email_id is its id, and
\* the state file written by the iteration holds its url, its id and its
\* timestamp (the text parses back to the same datetime).
C6_EventPersisted ==
    (pc = "sleep_test" /\ ~fetch_exc /\ email_data # NoEmail) =>
        /\ last_email_id = email_data.id
        /\ save_ok =>
              /\ StateFile.snap.url = email_data.livetrack_url
              /\ StateFile.snap.email_id = email_data.id
              /\ IF email_data.timestamp = NoTime
                 THEN StateFile.snap.timestamp = NoTime
                 ELSE /\ StateFile.snap.timestamp # NoTime
                      /\ fromisoformat(StateFile.snap.timestamp) = email_data.timestamp

\* the same id fetched again with a url other than the persisted one
C6_Witness ==
    /\ pc = "save_replace" /\ ret = "sleep_test" /\ log = "unchanged"
    /\ StateFile # Free
    /\ StateFile.snap.email_id = state.email_id
    /\ StateFile.snap.url # state.url /\ StateFile.snap.url # None

\* C7: after an iteration whose fetch returned no email, last_email_id is None
\* and the state file written by the iteration has url, timestamp, email_id and
\* error None; and the first email fetched after such an iteration is taken as
\* new, also when its id is the one that was cleared.
C7_NoEmailClears ==
    /\ (pc = "sleep_test" /\ ~fetch_exc /\ email_data = NoEmail) =>
          /\ last_email_id = None
          /\ save_ok =>
                /\ StateFile.snap.url = None /\ StateFile.snap.timestamp = NoTime
                /\ StateFile.snap.email_id = None /\ StateFile.snap.error = None
    /\ (pc = "sleep_test" /\ ~fetch_exc /\ email_data # NoEmail /\ clearedId # None) =>
          log = "new"

C7_Witness ==
    /\ pc = "sleep_test" /\ ~fetch_exc /\ email_data # NoEmail
    /\ clearedId = email_data.id /\ log = "new" /\ save_ok

\* C8: for a dict with url and timestamp, calculate_activity_status returns
\* waiting without url when the age exceeds DeadAgeHours, last_activity, stale
\* and with the url when the age exceeds MaxAgeHours but not DeadAgeHours, and
\* active, not stale otherwise.
C8_ClassifiedByAge ==
    (cls_out # Pending /\ cls_state.url # None /\ cls_state.timestamp # NoTime) =>
        LET age == cls_now - fromisoformat(cls_state.timestamp)[1] IN
        /\ age > DeadAgeHours * 3600 =>
              cls_out.status = "waiting" /\ cls_out.url = None
        /\ (age > MaxAgeHours * 3600 /\ age <= DeadAgeHours * 3600) =>
              /\ cls_out.status = "last_activity" /\ cls_out.is_stale
              /\ cls_out.url = cls_state.url
        /\ age <= MaxAgeHours * 3600 =>
              cls_out.status = "active" /\ ~cls_out.is_stale

\* C9: for a dict without timestamp or without url, calculate_activity_status
\* returns waiting and no url.
C9_WaitingWithoutTimestamp ==
    (cls_out # Pending /\ (cls_state.timestamp = NoTime \/ cls_state.url = None)) =>
        cls_out.status = "waiting" /\ cls_out.url = None

\* C10: the signal handler changes nothing but the flag; the process leaves
\* through "Service stopped" only from a test of the flag; an iteration that
\* has fetched is left only through the return of its save_state call, unless
\* a SIGHUP ends the process (C4); once the flag is false no fetch begins; and
\* once the flag is false the process eventually is not running any more.
C10_CooperativeShutdown ==
    /\ [][(running /\ ~running') => pc' = pc]_vars
    /\ [][pc' = "stopped" =>
            pc \in {"outer_test", "tok_wait", "loop_test", "stopped"}]_vars
    /\ [][(InCycleSave /\ pc' \notin SavePcs) => pc' \in {"sleep_test", "killed"}]_vars
    /\ [][(~running /\ pc # "fetch") => pc' # "fetch"]_vars
    /\ (~running ~> ~Alive)

\* stopped by the flag after an iteration that made its write
C10_Witness == pc = "stopped" /\ ~running /\ cycleWrites = 1

\* the Poller is inside monitor_loop
InLoop == pc \in {"loop_test", "fetch", "sleep_test", "loop_sleep"} \/ InCycleSave

C12_TokenAbsentUntilExchange ==
    [][(~token.present /\ token'.present) => pc' \in {pc, "killed"}]_vars

\* C13: when _verify_account finds another account than the expected one,
\* credential acquisition fails and, when it has failed, the token file is
\* absent.
C13_MismatchRemovesToken ==
    [][(pc = "auth_verify" /\ pc' = "except_other") => ~token'.present]_vars

\* C14: with an expected account configured, GmailClient.__init__ returns and
\* monitor_loop starts only with credentials of the expected account.
C14_SuccessOnlyIfConfirmed ==
    [][(expected_email /\ pc = "auth_verify" /\ pc' = "loop_test") =>
          creds.account = "me"]_vars

\* the Poller waits for the token file (monitor_service.py 164-165)
WaitingForToken == pc \in {"tok_wait", "tok_sleep"}

\* C15: while the token file is absent the Poller starts no fetch, and a
\* Poller waiting for it stays waiting, alternating the test and the 5 s sleep,
\* or stops on shutdown; and a waiting Poller that finds a token of the expected
\* account eventually fetches, unless the flag is cleared or the token is
\* removed or replaced by one of another account.
C15_WaitsForToken ==
    /\ [][(~token.present /\ ~token'.present /\ pc # "fetch") => pc' # "fetch"]_vars
    /\ [][(WaitingForToken /\ ~token.present /\ ~token'.present) =>
            (WaitingForToken' \/ pc' = "stopped")]_vars
    /\ ((WaitingForToken /\ token.present /\ token.valid
            /\ (expected_email => token.account = "me")) ~>
        (pc = "fetch" \/ ~running \/ ~token.present
            \/ (expected_email /\ token.account # "me")))

\* GmailClient.__init__ raised and main handles it: the except clause, its
\* save_state call and the sleep before the next attempt
Recovering ==
    \/ pc \in {"except_fnf", "except_other", "fnf_sleep", "retry_test", "retry_sleep"}
    \/ pc \in SavePcs /\ ret \in {"fnf_sleep", "retry_test"}

\* C16: _authenticate goes on to build the service only with valid
\* credentials; after it raised, the dict main hands to save_state has url None
\* and an error, and so has the state file once the write succeeded; main
\* leaves the handling only to its while test, after the 5 s or 10 s sleep (or
\* at once when the flag is false; or the process is ended by a SIGHUP, C4);
\* and after every failure main eventually tests the token again or the
\* process has stopped.
C16_AcquisitionFailureRetries ==
    /\ [][(pc = "auth_check" /\ pc' = "auth_save") => creds'.valid]_vars
    /\ [](Recovering /\ pc \in SavePcs =>
            state.url = None /\ state.error \in {WaitingForAuth, ServiceError})
    /\ [](pc \in {"fnf_sleep", "retry_test"} /\ save_ok =>
            /\ StateFile.snap.url = None
            /\ StateFile.snap.error \in {WaitingForAuth, ServiceError})
    /\ [][(Recovering /\ ~Recovering') => pc' \in {"outer_test", "killed"}]_vars
    /\ [][(Recovering /\ pc' = "outer_test") =>
            \/ pc \in {"fnf_sleep", "retry_sleep"}
            \/ pc = "retry_test" /\ ~running]_vars
    /\ (Recovering ~> (pc = "tok_check" \/ ~Alive))

\* the refresh of an expired token was rejected: the error is in the state
\* file and the Poller sleeps before its next attempt
C16_Witness ==
    /\ pc = "retry_sleep" /\ creds # NoToken /\ ~creds.valid /\ save_ok
    /\ StateFile.snap.error = ServiceError

\* C17: every POST /api/reauth answers success and leaves the token file
\* absent; when the file is absent already it deletes nothing, changes nothing
\* in the token file and answers success as well.
C17_ReauthIdempotent ==
    [][Reauth =>
         /\ ~token'.present
         /\ reauth_out'.status = "success"
         /\ (~token.present => (token' = token /\ ~reauth_out'.deleted))]_vars

\* /api/reauth was called without a token file and answered success
C17_Witness ==
    /\ reauth_out = [status |-> "success", deleted |-> FALSE]
    /\ ~token.present

\* snapshots with other content than the one on disk
OtherContents(snap) ==
    {[snap EXCEPT !.url = None], [snap EXCEPT !.error = ServiceError],
     [snap EXCEPT !.updated_at = 0], [snap EXCEPT !.updated_at = MaxClock],
     MissingState}

\* C18: the health route reports the Poller healthy exactly when the state
\* file exists and the time since its last write is strictly less than twice
\* the check interval; the answer is the same whatever the file contains.
C18_HealthFromWriteAge ==
    /\ [][Health =>
            (health_out'.monitor_service = "healthy" <=>
                (StateFile # Free /\
                 clock - StateFile.mtime < 2 * CheckInterval))]_vars
    /\ [][(Health /\ StateFile # Free) =>
            \A snap \in OtherContents(StateFile.snap) :
                HealthAnswer([StateFile EXCEPT !.snap = snap],
                             clock).monitor_service
                    = health_out'.monitor_service]_vars

\* the file holds an activity without error, written exactly two intervals
\* ago, and the route answered stale
C18_Witness ==
    /\ health_out = HealthAnswer(StateFile, clock)
    /\ health_out.monitor_service = "stale"
    /\ health_out.state_age_seconds = <<2 * CheckInterval>>
    /\ health_out.has_activity
    /\ StateFile.snap.error = None

\* C19: while no state file exists, read_state yields the record with url
\* null and the error "Monitor service not running", the status route answers
\* waiting with url null, and the health route answers state_file_exists
\* false and the monitor not healthy.
C19_MissingRecord ==
    /\ [][(GetCurrent /\ StateFile = Free) =>
            /\ cls_state' = MissingState
            /\ cls_state'.url = None
            /\ cls_state'.error = "Monitor service not running"
            /\ cls_out'.status = "waiting"
            /\ cls_out'.url = None]_vars
    /\ [][(Health /\ StateFile = Free) =>
            /\ ~health_out'.state_file_exists
            /\ health_out'.monitor_service # "healthy"
            /\ ~health_out'.has_activity]_vars

\* both routes have answered and there is still no state file
C19_Witness ==
    /\ StateFile = Free
    /\ cls_out # Pending /\ cls_out.status = "waiting" /\ cls_out.url = None
    /\ health_out # NoHealth /\ ~health_out.state_file_exists
    /\ health_out.monitor_service = "stale"

\* the event's timestamp lies more than the dead threshold before now
PastDead(e, now) ==
    e.timestamp # NoTime /\ OlderThan(now - e.timestamp[1], DeadAgeHours)

\* the iteration's fetch returned and its save_state call wrote the file
CycleCompleted == pc = "sleep_test" /\ ~fetch_exc /\ save_ok

\* C20: once an iteration has fetched without error and written the state
\* file, the status route answers with the url of the event the fetch
\* returned, or with waiting and url null when the fetch returned none or the
\* event is older than the dead threshold.
C20_ConvergesAfterCycle ==
    [][(GetCurrent /\ CycleCompleted) =>
            IF email_data = NoEmail \/ PastDead(email_data, clock)
            THEN cls_out'.status = "waiting" /\ cls_out'.url = None
            ELSE cls_out'.url = email_data.livetrack_url]_vars

\* save_state is about to rename a snapshot of the fetched message over a
\* snapshot an earlier iteration wrote for the message of the same id, and
\* the loop found the id unchanged since its previous fetch
SameEventAgain ==
    /\ pc = "save_replace" /\ ret = "sleep_test"
    /\ email_data # NoEmail /\ log = "unchanged"
    /\ StateFile # Free /\ StateFile.snap.email_id = email_data.id

\* C21: when the message fetched is the one an earlier iteration persisted,
\* the new snapshot equals the persisted one in url, timestamp, email_id and
\* error, and its updated_at is not earlier; the clock never goes backwards.
C21_SameEventSameSnapshot ==
    /\ [](SameEventAgain =>
            /\ state.url = StateFile.snap.url
            /\ state.timestamp = StateFile.snap.timestamp
            /\ state.email_id = StateFile.snap.email_id
            /\ state.error = StateFile.snap.error
            /\ state.updated_at >= StateFile.snap.updated_at)
    /\ [][clock' >= clock]_vars

\* the second snapshot of the same message, written later than the first
C21_Witness ==
    /\ SameEventAgain
    /\ state.url = "u1" /\ state.timestamp # NoTime
    /\ state.updated_at > StateFile.snap.updated_at

\* a step of save_state other than the completed rename
WriteNotDone == pc \in SavePcs /\ ~save_ok'

\* C22: a save_state call that does not complete its rename leaves the state
\* file as it was and returns to its caller (unless a SIGHUP ends the process,
\* C4); last_email_id has the value the fetch gave it whether or not the write
\* succeeded; after a failed write the iteration goes to its sleep, and the
\* following iteration eventually starts a write again unless the flag is
\* cleared.
C22_WriteFailureContained ==
    /\ [][WriteNotDone => StateFile' = StateFile]_vars
    /\ [][(WriteNotDone /\ pc' \notin SavePcs) => pc' \in {ret, "killed"}]_vars
    /\ [][(pc \in SavePcs) => (last_email_id' = last_email_id)]_vars
    /\ [](pc = "sleep_test" /\ ~fetch_exc =>
            last_email_id = IF email_data # NoEmail THEN email_data.id ELSE None)
    /\ [][(pc = "sleep_test" /\ ~save_ok /\ running /\ pc' # pc) =>
            pc' \in {"loop_sleep", "killed"}]_vars
    /\ ((pc = "sleep_test" /\ ~save_ok /\ running) ~>
            ((InCycleSave /\ pc = "save_open") \/ ~running \/ ~Alive))

\* the iteration after one whose write failed starts its write: the file
\* still holds what main() wrote, the failed write left its temporary file,
\* and the loop has seen the message before
C22_Witness ==
    /\ pc = "save_open" /\ ret = "sleep_test"
    /\ log = "unchanged" /\ last_email_id = "e1"
    /\ path["tmp"] # 0
    /\ StateFile # Free /\ StateFile.snap.error = WaitingForAuth

\* C23: whatever the state file holds, GET /api/current answers with a
\* status among active, last_activity and waiting, and with url null exactly
\* when the status is waiting; a missing file and a file that cannot be
\* parsed are answered waiting.
C23_StatusAlwaysAnswered ==
    /\ [][GetCurrent =>
            /\ cls_out'.status \in {"active", "last_activity", "waiting"}
            /\ (cls_out'.url = None <=> cls_out'.status = "waiting")]_vars
    /\ [][(GetCurrent /\ ~Complete(StateFile)) =>
            /\ cls_state' \in {MissingState, ReadErrorState}
            /\ cls_out'.status = "waiting"]_vars

\* the answer given for a file that is cut short
C23_Witness ==
    /\ StateFile # Free /\ ~Complete(StateFile)
    /\ cls_state = ReadErrorState
    /\ cls_out # Pending /\ cls_out.status = "waiting" /\ cls_out.url = None

\* no snapshot is persisted, or the persisted one has no url and an error
NotYetInitialised ==
    StateFile = Free \/ (StateFile.snap.url = None /\ StateFile.snap.error # None)

C25_ReadsChangeNothing ==
    /\ [][(GetCurrent \/ Health) =>
            /\ path' = path /\ inode' = inode
            /\ token' = token
            /\ pc' = pc /\ state' = state]_vars
    /\ [](ENABLED GetCurrent /\ ENABLED Health)

\* both routes have answered from the snapshot of an event while the Poller
\* is in the middle of writing the next one, and the snapshot is still there
C25_Witness ==
    /\ pc = "save_write" /\ ret = "sleep_test"
    /\ cls_out # Pending /\ cls_out.url = "u1"
    /\ health_out # NoHealth /\ health_out.has_activity
    /\ StateFile # Free /\ StateFile.snap.url = "u1"

\* C26: once stop() has cleared the flag, the thread starts no check and
\* invokes no callback.
C26_NoCheckAfterStop ==
    [][em_stopped => ~(EmCheckOf(Emails) \/ EmCallback)]_vars

\* C27: a check goes on to the callbacks exactly when it changed the stored
\* url or email id, and then passes the new stored url (None after a clear);
\* a check that found nothing new or whose fetch raised invokes no callback;
\* when the callback loop ends every callback has been invoked once, whether
\* or not callbacks raised; and the callback loop leaves the stored url as
\* the check set it.
C27_CallbacksOncePerChange ==
    /\ [][(em_pc \in {"first", "wake"} /\ em_pc' # em_pc) =>
            /\ em_pc' \in {"notify", "test"}
            /\ em_calls' = NoCalls
            /\ (em_pc' = "notify" <=>
                    (current_livetrack_url' # current_livetrack_url
                     \/ em_last_email_id' # em_last_email_id))
            /\ (em_pc' = "notify" => em_url' = current_livetrack_url')]_vars
    /\ [][(em_pc = "notify" /\ em_pc' = "test") =>
            \A c \in Callbacks : em_calls'[c] = 1]_vars
    /\ [][em_pc = "notify" =>
            /\ current_livetrack_url' = current_livetrack_url
            /\ em_last_email_id' = em_last_email_id
            /\ em_url' = em_url]_vars
    /\ [](\A c \in Callbacks : em_calls[c] <= 1)
    /\ [](em_pc = "notify" => em_url = current_livetrack_url)

\* all callbacks have been told that the url was cleared
C27_Witness ==
    /\ em_pc = "test" /\ em_url = None /\ current_livetrack_url = None
    /\ \A c \in Callbacks : em_calls[c] = 1

\* C28: a request goes on to the exchange only with a state parameter that
\* is present and equal to the state load_oauth_state returned; when
\* load_oauth_state returns a state it has removed the file; and no saved
\* state lets more than one request go on to the exchange.
C28_StateSingleUse ==
    /\ [][\A w \in Workers :
            (cb_pc[w] # "exchange" /\ cb_pc'[w] = "exchange") =>
                /\ cb_request_state[w] # 0
                /\ cb_request_state[w] = cb_data[w]
                /\ cb_data[w] \in 1..issued]_vars
    /\ [][\A w \in Workers :
            (cb_pc[w] # "check" /\ cb_pc'[w] = "check" /\ cb_data'[w] # 0) =>
                (oauth_file.exists /\ ~oauth_file'.exists)]_vars
    /\ [](\A st \in 1..MaxFlows : authorised[st] <= 1)

\* C29: while the Poller process runs with its flag set and a state file
\* exists, the file's last write is less than two check intervals old, and
\* the health route answers healthy.
C29_LivePollerNeverStale ==
    /\ []((Alive /\ running /\ StateFile # Free) =>
            clock - StateFile.mtime < 2 * CheckInterval)
    /\ [][(Health /\ Alive /\ running /\ StateFile # Free) =>
            health_out'.monitor_service = "healthy"]_vars

\* the fields of a snapshot agree with each other
WellFormed(snap) ==
    /\ snap.url # None => (snap.error = None /\ snap.email_id # None)
    /\ snap.url = None => (snap.timestamp = NoTime /\ snap.email_id = None)
    /\ ~(snap.url # None /\ snap.error # None)

\* C30: the snapshot in the state file, and the one a save_state call is
\* writing, has an email id and no error when it has a url, has neither
\* timestamp nor email id when it has no url, and so never has both a url and
\* an error.
C30_SnapshotWellFormed ==
    /\ StateFile # Free => WellFormed(StateFile.snap)
    /\ pc \in SavePcs => WellFormed(state)

\* persisted snapshots of a message without parsable date and of a failed fetch
C30_Witness ==
    /\ StateFile # Free
    /\ StateFile.snap.url = "u2" /\ StateFile.snap.timestamp = NoTime
    /\ pc = "save_replace" /\ state.error = FetchError

\* C31: whatever start() and stop() calls have been made, at most one thread
\* of _monitor_loop is inside a check for emails.
C31_OneThreadChecks ==
    \A s, t \in Threads :
        (th_pc[s] \in {"first", "wake"} /\ th_pc[t] \in {"first", "wake"}) => s = t

\* C32: no request of /logout or /api/reauth returns its error answer, and
\* when one returns its success answer the token file is absent.
C32_ConcurrentRemovalSucceeds ==
    /\ [](\A w \in Workers : rq_out[w] # "error")
    /\ [][\A w \in Workers :
            (rq_out[w] # "success" /\ rq_out'[w] = "success") =>
                ~token'.present]_vars

====
